---- MODULE Spec2Model ----
(***************************************************************************)
(* behance-api (index.js): a callback-style client of the Behance REST     *)
(* API.  A client holds a token; each method validates its arguments,      *)
(* builds a URL and hands it to requestHandler, which issues one GET and   *)
(* calls the caller's callback when the transport completes.               *)
(*                                                                         *)
(* JavaScript values are records [t |-> type, v |-> sequence of strings].  *)
(* A string is the sequence of its pieces (the empty string is << >>), an  *)
(* object is the flat sequence <<key1, value1, key2, value2, ...>> in its  *)
(* enumeration order, a function carries its name.                         *)
(***************************************************************************)
EXTENDS Integers, Sequences, FiniteSets, TLC

VARIABLES client, pending, call, handled

vars == <<client, pending, call, handled>>

\* Largest number of keys of an options object a caller passes.
MaxKeys == 2
\* Largest number of arguments a caller passes to a method.
MaxArgs == 3

----------------------------------------------------------------------------
\* JavaScript values.

Undefined == [t |-> "undefined", v |-> << >>]
Null == [t |-> "null", v |-> << >>]
NaN == [t |-> "number", v |-> <<"NaN">>]
Str(s) == [t |-> "string", v |-> s]
Num(s) == [t |-> "number", v |-> s]
Obj(kv) == [t |-> "object", v |-> kv]
Fn(name) == [t |-> "function", v |-> <<name>>]
\* Error(message)
ErrorOf(msg) == [t |-> "error", v |-> msg]
\* The transport's response object; statusCode is its only field read.
Response(statusCode) == [t |-> "response", v |-> <<statusCode>>]
True == [t |-> "boolean", v |-> <<"true">>]

\* typeof x
TypeOf(x) == IF x.t \in {"null", "error", "response"} THEN "object" ELSE x.t

\* The truthiness test of `x ? a : b` and `x || y`.
Truthy(x) ==
  CASE x.t \in {"undefined", "null"} -> FALSE
    [] x.t = "string" -> x.v # << >>
    [] x.t = "number" -> x.v \notin {<<"NaN">>, <<"0">>}
    [] x.t = "boolean" -> x.v = <<"true">>
    [] OTHER -> TRUE

\* x || y
Or(x, y) == IF Truthy(x) THEN x ELSE y

\* String(x), as a template literal or a string concatenation converts x.
ToStr(x) ==
  CASE x.t = "undefined" -> <<"undefined">>
    [] x.t = "null" -> <<"null">>
    [] x.t \in {"object", "response"} -> <<"[object Object]">>
    [] x.t = "error" -> <<"Error: ">> \o x.v
    [] x.t = "function" -> <<"function ">> \o x.v \o <<"() { [code] }">>
    [] OTHER -> x.v

\* a + b: a concatenation when either operand converts to a string, a
\* numeric addition otherwise.  The only operands of the methods that do not
\* convert to a string are undefined ones, whose sum is NaN.
JsAdd(a, b) ==
  IF {a.t, b.t} \cap {"string", "object", "function", "error", "response"} # {}
  THEN Str(ToStr(a) \o ToStr(b))
  ELSE NaN

\* arguments[i - 1]: a parameter the caller did not pass is undefined.
Arg(args, i) == IF i <= Len(args) THEN args[i] ELSE Undefined

\* The indices "0", "1", ... of a string's pieces.
IndexKeys(n) == [i \in 1..n |-> ToString(i - 1)]

\* Object.keys(x) for a defined x: the own enumerable keys, in order.
ObjectKeys(x) ==
  CASE x.t = "object" -> [i \in 1..(Len(x.v) \div 2) |-> x.v[2 * i - 1]]
    [] x.t = "string" -> IndexKeys(Len(x.v))
    [] OTHER -> << >>

\* Object.keys throws a TypeError on undefined and null.
KeysThrow(x) == x.t \in {"undefined", "null"}

\* Array.prototype.indexOf: the 0-based index of the first match, or -1.
IndexOf(arr, x) ==
  IF \E i \in 1..Len(arr) : arr[i] = x
  THEN (CHOOSE i \in 1..Len(arr) : arr[i] = x /\ \A j \in 1..(i - 1) : arr[j] # x) - 1
  ELSE -1

----------------------------------------------------------------------------
\* The qs library, as requestUrl uses it.

\* encodeURIComponent on the pieces the callers pass: a space becomes %20,
\* the unreserved pieces are kept.
Encode(piece) ==
  CASE piece = "a b" -> "a%20b"
    [] piece = "" -> ""
    [] OTHER -> piece

RECURSIVE StringifyPairs(_, _)
\* key=value of the pairs from index i on, joined with &.
StringifyPairs(kv, i) ==
  IF 2 * i > Len(kv) THEN << >>
  ELSE (IF i > 1 THEN <<"&">> ELSE << >>)
       \o <<Encode(kv[2 * i - 1]), "=", Encode(kv[2 * i])>>
       \o StringifyPairs(kv, i + 1)

\* qs.stringify(x): the empty string unless x is an object.
QsStringify(x) == IF x.t = "object" THEN StringifyPairs(x.v, 1) ELSE << >>

----------------------------------------------------------------------------
\* The private functions of index.js.

BaseUrl == "https://api.behance.net/v2/"

\* requestUrl(endpoint, token, options), variant that drops the `?` when
\* there are no options to serialize.
requestUrlSkipsEmptyQuery(endpoint, token, options) ==
  LET ser == IF Truthy(options) THEN QsStringify(options) ELSE << >>
      query == IF ser = << >>
               THEN <<"?client_id=">> \o ToStr(token)
               ELSE <<"?">> \o ser \o <<"&client_id=">> \o ToStr(token)
  IN  Str(<<BaseUrl>> \o ToStr(endpoint) \o query)

\* requestUrl(endpoint, token, options)
requestUrl(endpoint, token, options) ==
  LET query == <<"?">>
               \o (IF Truthy(options) THEN QsStringify(options) ELSE << >>)
               \o <<"&client_id=">> \o ToStr(token)
  IN  Str(<<BaseUrl>> \o ToStr(endpoint) \o query)

\* What a call of a function leaves behind: the error it threw (<< >> when it
\* returned), the value it returned, whether it ran compareKeys, and the
\* requests it handed to the transport.
Threw(msg, validated) ==
  [err |-> msg, ret |-> Undefined, validated |-> validated, issued |-> << >>]
Returned(value, validated, issued) ==
  [err |-> << >>, ret |-> value, validated |-> validated, issued |-> issued]

TypeError == <<"TypeError">>

\* requestHandler(url, cb) up to the return of request(): one GET is in
\* flight, its completion handler holding cb.
requestHandler(url, cb) == <<[url |-> url, cb |-> cb]>>

\* The for loop of compareKeys from index i (1-based here) on.
compareKeysLoop(keys1, keys2, fn, i) ==
  IF ~(i <= Len(keys1)) THEN [err |-> << >>, ret |-> Undefined]
  ELSE IF IndexOf(keys2, keys1[i]) <= -1
       THEN [err |-> <<"property ", keys1[i], " is not a valid query for ", fn>>,
             ret |-> Undefined]
       ELSE [err |-> << >>, ret |-> True]

\* compareKeys(obj1, obj2, fn)
compareKeys(obj1, obj2, fn) ==
  IF KeysThrow(obj1) \/ KeysThrow(obj2)
  THEN [err |-> TypeError, ret |-> Undefined]
  ELSE compareKeysLoop(ObjectKeys(obj1), ObjectKeys(obj2), fn, 1)

----------------------------------------------------------------------------
\* The endpoint tables.

\* A field of a table entry; a field the entry does not define is undefined.
Field(def, f) == IF f \in DOMAIN def THEN def[f] ELSE Undefined

\* A schema: an object whose keys are the permitted query names.
Schema(keys) == Obj([i \in 1..(2 * Len(keys)) |->
                       IF i % 2 = 1 THEN keys[(i + 1) \div 2] ELSE ""])

\* libs/query-validation.json: per endpoint, the permitted query names.
queryValidation ==
  [projects |-> Schema(<<"q", "sort", "time", "field", "country", "page">>),
   creativesToFollow |-> Schema(<<"page">>),
   users |-> Schema(<<"q", "field", "country", "sort", "page">>),
   teams |-> Schema(<<"q", "sort", "page">>),
   collections |-> Schema(<<"q", "time", "page", "sort">>),
   projectComments |-> Schema(<<"page">>),
   userProjects |-> Schema(<<"sort", "time", "page">>),
   userWips |-> Schema(<<"sort", "time", "page">>),
   teamsProjects |-> Schema(<<"sort", "time", "page">>),
   userAppreciations |-> Schema(<<"page">>),
   userCollections |-> Schema(<<"time", "page", "sort">>),
   userFollowers |-> Schema(<<"sort", "page">>),
   userFollowing |-> Schema(<<"sort", "page">>),
   collectionProjects |-> Schema(<<"time", "page", "sort">>)]

endpointWithOptionOnly ==
  << [name |-> Str(<<"projects">>), path |-> Str(<<"projects">>),
      queries |-> Field(queryValidation, "projects")],
     [name |-> Str(<<"creativesToFollow">>), path |-> Str(<<"creativestofollow">>),
      queries |-> Field(queryValidation, "creativesToFollow")],
     [name |-> Str(<<"users">>), path |-> Str(<<"users">>),
      queries |-> Field(queryValidation, "users")],
     [name |-> Str(<<"teams">>), path |-> Str(<<"teams">>),
      queries |-> Field(queryValidation, "teams")],
     [name |-> Str(<<"collections">>), path |-> Str(<<"collections">>),
      queries |-> Field(queryValidation, "collections")] >>

endpointWithOnlyAnId ==
  << [name |-> Str(<<"project">>), pathprefix |-> Str(<<"projects/">>)],
     [name |-> Str(<<"user">>), pathprefix |-> Str(<<"users/">>)],
     [name |-> Str(<<"team">>), pathprefix |-> Str(<<"teams/">>)],
     [name |-> Str(<<"userStats">>), pathprefix |-> Str(<<"users/">>),
      pathsuffix |-> Str(<<"/stats">>)],
     [name |-> Str(<<"userWorkExperience">>), pathprefix |-> Str(<<"users/">>),
      pathsuffix |-> Str(<<"/work_experience">>)],
     [name |-> Str(<<"collection">>), path |-> Str(<<"collection">>)] >>

endpointWithIdAndOptions ==
  << [name |-> Str(<<"projectComments">>), pathprefix |-> Str(<<"projects/">>),
      pathsuffix |-> Str(<<"/comments">>),
      queries |-> Field(queryValidation, "projectComments")],
     [name |-> Str(<<"userProjects">>), pathprefix |-> Str(<<"users/">>),
      pathsuffix |-> Str(<<"/projects">>),
      queries |-> Field(queryValidation, "userProjects")],
     [name |-> Str(<<"userWips">>), pathprefix |-> Str(<<"users/">>),
      pathsuffix |-> Str(<<"/wips">>),
      queries |-> Field(queryValidation, "userWips")],
     [name |-> Str(<<"teamProjects">>), pathprefix |-> Str(<<"teams/">>),
      pathsuffix |-> Str(<<"/projects">>),
      queries |-> Field(queryValidation, "teamsProjects")],
     [name |-> Str(<<"userAppreciations">>), pathprefix |-> Str(<<"users/">>),
      pathsuffix |-> Str(<<"/appreciations">>),
      queries |-> Field(queryValidation, "userAppreciations")],
     [name |-> Str(<<"userCollections">>), pathprefix |-> Str(<<"users/">>),
      pathsuffix |-> Str(<<"/collections">>),
      queries |-> Field(queryValidation, "userCollections")],
     [name |-> Str(<<"userFollowers">>), pathprefix |-> Str(<<"users/">>),
      pathsuffix |-> Str(<<"/followers">>),
      queries |-> Field(queryValidation, "userFollowers")],
     [name |-> Str(<<"userFollowing">>), pathprefix |-> Str(<<"users/">>),
      pathsuffix |-> Str(<<"/following">>),
      queries |-> Field(queryValidation, "userFollowing")],
     [name |-> Str(<<"collectionProjects">>), pathprefix |-> Str(<<"collections/">>),
      pathsuffix |-> Str(<<"/projects">>),
      queries |-> Field(queryValidation, "collectionProjects")] >>

----------------------------------------------------------------------------
\* The generated methods, each on (its table entry, this, arguments).

\* def.pathprefix + id + (def.pathsuffix ? def.pathsuffix : '')
EndpointOf(def, id) ==
  JsAdd(JsAdd(Field(def, "pathprefix"), id),
        IF Truthy(Field(def, "pathsuffix")) THEN Field(def, "pathsuffix")
        ELSE Str(<< >>))

\* Object.keys(opts).length === 0 || compareKeys(opts, def.queries, def.name),
\* and the request made when it is true.
ValidateAndRequest(def, opts, url, cb) ==
  IF KeysThrow(opts) THEN Threw(TypeError, FALSE)
  ELSE IF Len(ObjectKeys(opts)) = 0
       THEN Returned(Undefined, FALSE, requestHandler(url, cb))
       ELSE LET r == compareKeys(opts, Field(def, "queries"), ToStr(def.name)[1])
            IN  IF r.err # << >> THEN Threw(r.err, TRUE)
                ELSE IF Truthy(r.ret)
                     THEN Returned(Undefined, TRUE, requestHandler(url, cb))
                     ELSE Returned(Undefined, TRUE, << >>)

\* Behance.prototype[def.name] = function (opts, cb), def of endpointWithOptionOnly
OptionOnlyMethod(def, this, args) ==
  LET opts == Arg(args, 1)
      cb == Arg(args, 2)
  IN  ValidateAndRequest(def, opts, requestUrl(def.path, this.clientId, opts), cb)

\* The id-only method, variant whose guard is arguments.length < 2.
OnlyAnIdMethodAtLeastTwo(def, this, args) ==
  LET id == Arg(args, 1)
      cb == Arg(args, 2)
      endpoint == EndpointOf(def, id)
  IN  IF Len(args) < 2
      THEN Threw(<<".", ToStr(def.name)[1],
                   " requires both an id and a callback function.">>, FALSE)
      ELSE Returned(Undefined, FALSE,
                    requestHandler(requestUrl(endpoint, this.clientId, Undefined), cb))

\* Behance.prototype[def.name] = function (id, cb), def of endpointWithOnlyAnId
OnlyAnIdMethod(def, this, args) ==
  LET id == Arg(args, 1)
      cb == Arg(args, 2)
      endpoint == EndpointOf(def, id)
  IN  IF Len(args) # 2
      THEN Threw(<<".", ToStr(def.name)[1],
                   " requires both an id and a callback function.">>, FALSE)
      ELSE Returned(Undefined, FALSE,
                    requestHandler(requestUrl(endpoint, this.clientId, Undefined), cb))

\* The id-plus-options method, variant without the reordering of the
\* parameters of a two-argument call.
IdAndOptionsMethodNoReorder(def, this, args) ==
  LET id == Arg(args, 1)
      opts == Arg(args, 2)
      cb == Arg(args, 3)
      endpoint == EndpointOf(def, id)
  IN  IF id = Str(<< >>) \/ TypeOf(id) = "object"
      THEN Threw(<<".", ToStr(def.name)[1],
                   " requires at least an id and a callback function.">>, FALSE)
      ELSE ValidateAndRequest(def, opts, requestUrl(endpoint, this.clientId, opts), cb)

\* The id-plus-options method, variant whose guard tests id === '' alone.
IdAndOptionsMethodEmptyIdOnly(def, this, args) ==
  LET id == Arg(args, 1)
      opts == Arg(args, 2)
      cb == Arg(args, 3)
      endpoint == EndpointOf(def, id)
      newCb == IF Len(args) = 2 THEN opts ELSE Undefined
      newOpts == IF Len(args) = 2 THEN Obj(<< >>) ELSE Undefined
  IN  IF id = Str(<< >>)
      THEN Threw(<<".", ToStr(def.name)[1],
                   " requires at least an id and a callback function.">>, FALSE)
      ELSE ValidateAndRequest(def, opts,
                              requestUrl(endpoint, this.clientId, Or(newOpts, opts)),
                              Or(newCb, cb))

\* Behance.prototype[def.name] = function (id, opts, cb), def of
\* endpointWithIdAndOptions
IdAndOptionsMethod(def, this, args) ==
  LET id == Arg(args, 1)
      opts == Arg(args, 2)
      cb == Arg(args, 3)
      endpoint == EndpointOf(def, id)
      newCb == IF Len(args) = 2 THEN opts ELSE Undefined
      newOpts == IF Len(args) = 2 THEN Obj(<< >>) ELSE Undefined
  IN  IF id = Str(<< >>) \/ TypeOf(id) = "object"
      THEN Threw(<<".", ToStr(def.name)[1],
                   " requires at least an id and a callback function.">>, FALSE)
      ELSE ValidateAndRequest(def, opts,
                              requestUrl(endpoint, this.clientId, Or(newOpts, opts)),
                              Or(newCb, cb))

\* Behance.prototype.fields = function (cb)
FieldsMethod(this, args) ==
  Returned(Undefined, FALSE,
           requestHandler(requestUrl(Str(<<"fields">>), this.clientId, Undefined),
                          Arg(args, 1)))

\* The object `new Behance(token)` builds before the token check.
NewThis(args) == [clientId |-> Arg(args, 1)]

\* The constructor, variant without the token check.
BehanceUnchecked(args) ==
  Returned(Obj(<<"clientId">> \o ToStr(NewThis(args).clientId)), FALSE, << >>)

\* const Behance = function (token): returns the new object, or throws.
Behance(args) ==
  IF NewThis(args).clientId = Undefined
  THEN Threw(<<"Please supply an authorization token for new Behance().">>, FALSE)
  ELSE Returned(Obj(<<"clientId">> \o ToStr(NewThis(args).clientId)), FALSE, << >>)

----------------------------------------------------------------------------
\* JSON.parse on the bodies the transport delivers.

QuotedStrings == {"\"fields\"", "\"popular\"", "\"project\""}
Unquote(piece) ==
  CASE piece = "\"fields\"" -> "fields"
    [] piece = "\"popular\"" -> "popular"
    [] piece = "\"project\"" -> "project"
Literals == {"[]", "1", "4889175"}

RECURSIVE ParseMembers(_, _, _)
\* The members `"key" : value` of an object from piece i on, up to the
\* closing brace that must end the text; acc is the object read so far.
ParseMembers(toks, i, acc) ==
  IF i + 3 > Len(toks) THEN [ok |-> FALSE, value |-> Undefined]
  ELSE IF ~(toks[i] \in QuotedStrings /\ toks[i + 1] = ":" /\ toks[i + 2] \in Literals)
       THEN [ok |-> FALSE, value |-> Undefined]
       ELSE LET more == acc \o <<Unquote(toks[i]), toks[i + 2]>>
            IN  IF toks[i + 3] = "}" /\ i + 3 = Len(toks)
                THEN [ok |-> TRUE, value |-> Obj(more)]
                ELSE IF toks[i + 3] = ","
                     THEN ParseMembers(toks, i + 4, more)
                     ELSE [ok |-> FALSE, value |-> Undefined]

\* JSON.parse(data): the parsed value, or ok = FALSE for the SyntaxError.
JSONParse(data) ==
  LET toks == ToStr(data)
  IN  IF toks = <<"{", "}">> THEN [ok |-> TRUE, value |-> Obj(<< >>)]
      ELSE IF Len(toks) = 1 /\ toks[1] \in Literals \ {"[]"}
           THEN [ok |-> TRUE, value |-> Num(toks)]
           ELSE IF Len(toks) >= 1 /\ toks[1] = "{"
                THEN ParseMembers(toks, 2, << >>)
                ELSE [ok |-> FALSE, value |-> Undefined]

----------------------------------------------------------------------------
\* The completion handler requestHandler gives to request().

\* What one run of the handler leaves behind: the error it threw (<< >> when
\* it returned), whether it ran JSON.parse, and the calls it made of cb.
HandlerThrew(msg, parsed) == [threw |-> msg, parsed |-> parsed, cbCalls |-> << >>]

\* cb(...cbArgs): calling what is not a function is a TypeError.
InvokeCb(cb, cbArgs, parsed) ==
  IF TypeOf(cb) = "function"
  THEN [threw |-> << >>, parsed |-> parsed, cbCalls |-> <<cbArgs>>]
  ELSE HandlerThrew(TypeError, parsed)

\* The handler, variant that parses the body before it tests the status.
HandlerParsesFirst(cb, err, res, data) ==
  IF res.t \in {"undefined", "null"} THEN HandlerThrew(TypeError, FALSE)
  ELSE LET p == JSONParse(data)
       IN  IF ~p.ok THEN HandlerThrew(<<"Error: SyntaxError">>, TRUE)
           ELSE IF res.v[1] = "403"
                THEN InvokeCb(cb, <<ErrorOf(<<"No response from the Behance API">>)>>, TRUE)
                ELSE InvokeCb(cb, <<err, res, p.value>>, TRUE)

\* The handler, variant that hands a parse failure to the callback.
HandlerReportsParseError(cb, err, res, data) ==
  IF res.t \in {"undefined", "null"} THEN HandlerThrew(TypeError, FALSE)
  ELSE IF res.v[1] = "403"
       THEN InvokeCb(cb, <<ErrorOf(<<"No response from the Behance API">>)>>, FALSE)
       ELSE LET p == JSONParse(data)
            IN  IF ~p.ok THEN InvokeCb(cb, <<ErrorOf(<<"SyntaxError">>)>>, TRUE)
                ELSE InvokeCb(cb, <<err, res, p.value>>, TRUE)

\* (err, res, data) => { ... } of requestHandler(url, cb)
Handler(cb, err, res, data) ==
  IF res.t \in {"undefined", "null"} THEN HandlerThrew(TypeError, FALSE)
  ELSE IF res.v[1] = "403"
       THEN InvokeCb(cb, <<ErrorOf(<<"No response from the Behance API">>)>>, FALSE)
       ELSE LET p == JSONParse(data)
            IN  IF ~p.ok THEN HandlerThrew(<<"Error: SyntaxError">>, TRUE)
                ELSE InvokeCb(cb, <<err, res, p.value>>, TRUE)

----------------------------------------------------------------------------
\* The inputs the callers and the transport give.

OptionKeys == {"q", "time", "sort", "bogus"}
OptionValue(k) ==
  CASE k = "q" -> "motorcycle"
    [] k = "time" -> "month"
    [] k = "sort" -> "appreciations"
    [] OTHER -> "a b"

RECURSIVE KeyLists(_)
\* The lists of n option keys.
KeyLists(n) ==
  IF n = 0 THEN {<< >>}
  ELSE {Append(ks, k) : ks \in KeyLists(n - 1), k \in OptionKeys}

\* No key twice: an object holds a key once.
Distinct(ks) == \A i, j \in 1..Len(ks) : i # j => ks[i] # ks[j]

OptionsOf(ks) == Obj([i \in 1..(2 * Len(ks)) |->
                        IF i % 2 = 1 THEN ks[(i + 1) \div 2]
                        ELSE OptionValue(ks[i \div 2])])

\* The options objects: up to MaxKeys distinct keys, in every order.
Options ==
  {OptionsOf(ks) : ks \in {l \in UNION {KeyLists(n) : n \in 0..MaxKeys} : Distinct(l)}}

Callback == Fn("cb")
SomeId == Str(<<"4889175">>)
Ids == {Undefined, Str(<< >>), SomeId, OptionsOf(<<"sort">>), Callback}
Tokens == {Num(<<"123456789">>), Str(<<"key">>), Null}

\* The values a caller passes at position i of a call of a family.
ArgValues(family, i) ==
  CASE family = "Behance" -> IF i = 1 THEN Tokens \cup {Undefined} ELSE {Undefined}
    [] family = "optionOnly" ->
         IF i = 1 THEN Options \cup {Undefined, Callback}
         ELSE IF i = 2 THEN {Callback, Undefined} ELSE {Undefined}
    [] family = "onlyAnId" ->
         IF i = 1 THEN Ids
         ELSE IF i = 2 THEN {Callback, Undefined, Obj(<< >>)} ELSE {Callback}
    [] family = "idAndOptions" ->
         IF i = 1 THEN Ids
         ELSE IF i = 2 THEN Options \cup {Undefined, Callback}
         ELSE IF i = 3 THEN {Callback, Undefined} ELSE {Undefined}
    [] family = "fields" -> IF i = 1 THEN {Callback, Undefined} ELSE {Undefined}

RECURSIVE ArgsOfLen(_, _)
ArgsOfLen(family, n) ==
  IF n = 0 THEN {<< >>}
  ELSE {Append(a, x) : a \in ArgsOfLen(family, n - 1), x \in ArgValues(family, n)}

\* The argument lists of a call: from none to MaxArgs arguments.
ArgLists(family) == UNION {ArgsOfLen(family, n) : n \in 0..MaxArgs}

\* The endpoints the URL builder is called with directly.
Endpoints == {Str(<<"projects">>), Str(<<"users/", "4889175", "/projects">>), Str(<<"fields">>)}

StatusCodes == {"200", "403", "404"}
Bodies == {Str(<<"{", "}">>),
           Str(<<"{", "\"fields\"", ":", "[]", ",", "\"popular\"", ":", "[]", "}">>),
           Str(<<"{", "\"project\"", ":", "4889175", "}">>),
           Str(<<"<html>">>),
           Str(<<"{", "\"fields\"", ":">>),
           Str(<< >>)}

\* What the transport hands to the completion handler: a response with its
\* body and no error, or an error with neither response nor body.
Completions ==
  {[err |-> Null, res |-> Response(sc), data |-> b] : sc \in StatusCodes, b \in Bodies}
  \cup {[err |-> ErrorOf(<<"connect ECONNREFUSED">>), res |-> Undefined,
         data |-> Undefined]}

----------------------------------------------------------------------------
\* The state: the constructed client (none, or one), the requests in
\* flight, the last call made with what it did, and the last run of the
\* completion handler of that call's request.

NoCall == [op |-> "none", family |-> "none", args |-> << >>,
           err |-> << >>, ret |-> Undefined, validated |-> FALSE, issued |-> << >>]
NotHandled == [done |-> FALSE, url |-> Undefined, cb |-> Undefined,
               err |-> Undefined, res |-> Undefined, data |-> Undefined,
               threw |-> << >>, parsed |-> FALSE, cbCalls |-> << >>]

Init ==
  /\ client = << >>
  /\ pending = << >>
  /\ call = NoCall
  /\ handled = NotHandled

\* The record of a call: what was called, with what, and its outcome.
CallRecord(op, family, args, out) ==
  [op |-> op, family |-> family, args |-> args, err |-> out.err, ret |-> out.ret,
   validated |-> out.validated, issued |-> out.issued]

\* The caller makes one call at a time, as the tests do: the methods share
\* no state, so overlapped calls act as the same calls in sequence.
Ready == call = NoCall /\ pending = << >>

\* The call of op with args, and what it did.
Made(op, family, args, out) ==
  /\ call' = CallRecord(op, family, args, out)
  /\ pending' = pending \o out.issued
  /\ handled' = NotHandled

\* new Behance(...args)
New ==
  /\ Ready
  /\ \E args \in ArgLists("Behance") :
    /\ Made("Behance", "Behance", args, Behance(args))
    /\ client' = IF Behance(args).err = << >> THEN <<NewThis(args)>> ELSE client

\* Be[def.name](...args), def of endpointWithOptionOnly
CallOptionOnly ==
  /\ Ready /\ client # << >>
  /\ \E i \in 1..Len(endpointWithOptionOnly), args \in ArgLists("optionOnly") :
    LET def == endpointWithOptionOnly[i] IN
    /\ Made(ToStr(def.name)[1], "optionOnly", args, OptionOnlyMethod(def, client[1], args))
    /\ UNCHANGED client

\* Be[def.name](...args), def of endpointWithOnlyAnId
CallOnlyAnId ==
  /\ Ready /\ client # << >>
  /\ \E i \in 1..Len(endpointWithOnlyAnId), args \in ArgLists("onlyAnId") :
    LET def == endpointWithOnlyAnId[i] IN
    /\ Made(ToStr(def.name)[1], "onlyAnId", args, OnlyAnIdMethod(def, client[1], args))
    /\ UNCHANGED client

\* Be[def.name](...args), def of endpointWithIdAndOptions
CallIdAndOptions ==
  /\ Ready /\ client # << >>
  /\ \E i \in 1..Len(endpointWithIdAndOptions), args \in ArgLists("idAndOptions") :
    LET def == endpointWithIdAndOptions[i] IN
    /\ Made(ToStr(def.name)[1], "idAndOptions", args,
            IdAndOptionsMethod(def, client[1], args))
    /\ UNCHANGED client

\* Be.fields(...args)
CallFields ==
  /\ Ready /\ client # << >>
  /\ \E args \in ArgLists("fields") :
    /\ Made("fields", "fields", args, FieldsMethod(client[1], args))
    /\ UNCHANGED client

\* requestUrl(endpoint, token, options), called directly as the tests do.
BuildUrl ==
  /\ Ready
  /\ \E endpoint \in Endpoints, token \in Tokens, options \in Options \cup {Undefined} :
    /\ Made("requestUrl", "private", <<endpoint, token, options>>,
            Returned(requestUrl(endpoint, token, options), FALSE, << >>))
    /\ UNCHANGED client

\* The transport completes the oldest request and runs its handler.
Complete ==
  /\ pending # << >>
  /\ \E c \in Completions :
       LET req == Head(pending)
           h == Handler(req.cb, c.err, c.res, c.data)
       IN  handled' = [done |-> TRUE, url |-> req.url, cb |-> req.cb,
                       err |-> c.err, res |-> c.res, data |-> c.data,
                       threw |-> h.threw, parsed |-> h.parsed, cbCalls |-> h.cbCalls]
  /\ pending' = Tail(pending)
  /\ UNCHANGED <<client, call>>

\* The caller is done with its call (the tests' done()): it threw, or its
\* request completed, or it returned without a request.
Done ==
  /\ call # NoCall
  /\ pending = << >>
  /\ call' = NoCall
  /\ handled' = NotHandled
  /\ UNCHANGED <<client, pending>>

Next ==
  \/ New
  \/ CallOptionOnly
  \/ CallOnlyAnId
  \/ CallIdAndOptions
  \/ CallFields
  \/ BuildUrl
  \/ Complete
  \/ Done

Spec == Init /\ [][Next]_vars

----------------------------------------------------------------------------
\* Properties.

\* The table entry of the method a call record names.
DefOf(table, op) == table[CHOOSE i \in 1..Len(table) : ToStr(table[i].name)[1] = op]
CalledDef ==
  CASE call.family = "optionOnly" -> DefOf(endpointWithOptionOnly, call.op)
    [] call.family = "onlyAnId" -> DefOf(endpointWithOnlyAnId, call.op)
    [] call.family = "idAndOptions" -> DefOf(endpointWithIdAndOptions, call.op)

IsNonEmptyString(x) == x.t = "string" /\ x.v # << >>
IsFunction(x) == x.t = "function"

\* The options argument of the last call of a method that takes options:
\* the first argument of an options-only method, the second of an
\* id-plus-options method called with a usable id and three arguments.
CalledWithOptions ==
  \/ /\ call.family = "optionOnly"
     /\ Len(call.args) >= 1
  \/ /\ call.family = "idAndOptions"
     /\ Len(call.args) >= 3
     /\ IsNonEmptyString(call.args[1])
CalledOptions == IF call.family = "optionOnly" THEN call.args[1] ELSE call.args[2]

HasKeyOutsideSchema(opts, schema) ==
  /\ opts.t = "object"
  /\ \E i \in 1..Len(ObjectKeys(opts)) :
       \A j \in 1..Len(ObjectKeys(schema)) : ObjectKeys(schema)[j] # ObjectKeys(opts)[i]

IsValidationError(err) ==
  Len(err) = 4 /\ err[1] = "property " /\ err[3] = " is not a valid query for "

\* C1: a call of an options-only or id-plus-options method whose options
\* object holds a key outside the endpoint's schema, at whatever position,
\* throws a validation error and issues no GET.
C1_InvalidKeyRejected ==
  (CalledWithOptions /\ HasKeyOutsideSchema(CalledOptions, Field(CalledDef, "queries")))
    => /\ IsValidationError(call.err)
       /\ call.issued = << >>
       /\ pending = << >>

IsTransportFailure ==
  /\ handled.done
  /\ handled.err.t = "error"
  /\ handled.res = Undefined

\* C2: when the transport reports an error and no response, the handler
\* throws nothing and calls the callback with that error as first argument.
C2_TransportErrorDelivered ==
  (IsTransportFailure /\ IsFunction(handled.cb))
    => /\ handled.threw = << >>
       /\ Len(handled.cbCalls) = 1
       /\ handled.cbCalls[1][1] = handled.err

IsTwoArgCall ==
  /\ call.family = "idAndOptions"
  /\ Len(call.args) = 2
  /\ IsNonEmptyString(call.args[1])
  /\ IsFunction(call.args[2])

\* C3: an id-plus-options method called with (id, callback), id a non-empty
\* string, issues the request of the call (id, {}, callback): the same URL,
\* built with empty options, and the same callback.
C3_TwoArgsAsEmptyOptions ==
  IsTwoArgCall =>
    LET id == call.args[1]
        cb == call.args[2]
        three == IdAndOptionsMethod(CalledDef, client[1], <<id, Obj(<< >>), cb>>)
    IN  /\ call.err = << >>
        /\ call.issued = three.issued
        /\ call.issued =
             <<[url |-> requestUrl(EndpointOf(CalledDef, id), client[1].clientId, Obj(<< >>)),
                cb |-> cb]>>
        /\ ~handled.done => pending = call.issued

C3_Witness ==
  /\ call.op = "userProjects"
  /\ call.args = <<Str(<<"4889175">>), Callback>>
  /\ Len(call.issued) = 1
  /\ SubSeq(call.issued[1].url.v, 2, 6) =
       <<"users/", "4889175", "/projects", "?", "&client_id=">>
  /\ call.issued[1].cb = Callback

IsArgumentError(err) == Len(err) = 3 /\ err[1] = "."

\* C4: an id-only method called with any number of arguments other than two
\* throws an argument error and issues no GET.
C4_IdOnlyArity ==
  (call.family = "onlyAnId" /\ Len(call.args) # 2)
    => /\ IsArgumentError(call.err)
       /\ call.err[3] = " requires both an id and a callback function."
       /\ call.issued = << >>
       /\ pending = << >>

C4_Witness ==
  /\ call.op = "project"
  /\ call.args = <<SomeId, Obj(<< >>), Callback>>
  /\ call.err # << >>

\* C5: an id-plus-options method whose id is the empty string or an object
\* throws an argument error; it neither validates options nor issues a GET.
C5_BadIdRejected ==
  (/\ call.family = "idAndOptions"
   /\ Len(call.args) >= 1
   /\ (call.args[1] = Str(<< >>) \/ call.args[1].t = "object"))
    => /\ IsArgumentError(call.err)
       /\ call.err[3] = " requires at least an id and a callback function."
       /\ ~call.validated
       /\ call.issued = << >>
       /\ pending = << >>

C5_Witness ==
  /\ call.op = "userProjects"
  /\ call.args = <<OptionsOf(<<"sort">>), Callback>>
  /\ call.err # << >>

IsForbidden ==
  /\ handled.done
  /\ handled.res = Response("403")
  /\ IsFunction(handled.cb)

\* C6: on a response of status 403 the handler calls the callback exactly
\* once, with an error as its only argument, and does not parse the body.
C6_ForbiddenToCallback ==
  IsForbidden
    => /\ Len(handled.cbCalls) = 1
       /\ Len(handled.cbCalls[1]) = 1
       /\ handled.cbCalls[1][1].t = "error"
       /\ ~handled.parsed
       /\ handled.threw = << >>

C6_Witness ==
  /\ IsForbidden
  /\ handled.data = Str(<<"<html>">>)
  /\ Len(handled.cbCalls) = 1

IsEmptyOptions(x) == ~Truthy(x) \/ x = Obj(<< >>)

\* C7: the URL builder returns the base URL, the path, `?`, the serialized
\* options, `&client_id=` and the token, in that order; client_id is the
\* last parameter, and with absent or empty options `?` is followed at once
\* by `&client_id=`.
C7_UrlShape ==
  call.op = "requestUrl" =>
    LET endpoint == call.args[1]
        token == call.args[2]
        options == call.args[3]
        ser == IF options.t = "object" THEN StringifyPairs(options.v, 1) ELSE << >>
        url == call.ret.v
        n == Len(url)
    IN  /\ call.ret.t = "string"
        /\ url = <<"https://api.behance.net/v2/">> \o endpoint.v \o <<"?">> \o ser
                 \o <<"&client_id=">> \o ToStr(token)
        /\ SubSeq(url, n - 1, n) = <<"&client_id=">> \o ToStr(token)
        /\ IsEmptyOptions(options) => url[n - 2] = "?"

C7_Witness ==
  /\ call.op = "requestUrl"
  /\ call.args = <<Str(<<"projects">>), Num(<<"123456789">>), OptionsOf(<<"q", "time">>)>>
  /\ call.ret = Str(<<"https://api.behance.net/v2/", "projects", "?",
                      "q", "=", "motorcycle", "&", "time", "=", "month",
                      "&client_id=", "123456789">>)

\* C8: constructing with an undefined token throws and produces no object;
\* constructing with a defined token succeeds and stores it; a client that
\* exists never holds an undefined token.
C8_TokenRequired ==
  /\ client # << >> => client[1].clientId # Undefined
  /\ call.op = "Behance" =>
       IF Arg(call.args, 1) = Undefined
       THEN call.err # << >> /\ call.ret = Undefined
       ELSE call.err = << >> /\ call.ret.t = "object"
            /\ client = <<[clientId |-> call.args[1]]>>

C8_Witness ==
  /\ call.op = "Behance"
  /\ call.args = << >>
  /\ call.err # << >>
  /\ client = << >>

\* C9: every id-only table entry defines a path prefix, and a call with
\* (id, callback) issues its GET to prefix + id + suffix.
C9_IdOnlyPath ==
  (/\ call.family = "onlyAnId"
   /\ Len(call.args) = 2
   /\ IsNonEmptyString(call.args[1])
   /\ IsFunction(call.args[2]))
    => /\ Field(CalledDef, "pathprefix").t = "string"
       /\ Len(call.issued) = 1
       /\ call.issued[1].url =
            requestUrl(Str(ToStr(Field(CalledDef, "pathprefix")) \o call.args[1].v
                           \o (IF "pathsuffix" \in DOMAIN CalledDef
                               THEN CalledDef.pathsuffix.v ELSE << >>)),
                       client[1].clientId, Undefined)
       /\ call.issued[1].url.v[2] # "undefined"

MalformedBodies == {Str(<<"<html>">>), Str(<<"{", "\"fields\"", ":">>), Str(<< >>)}

IsMalformedReply ==
  /\ handled.done
  /\ handled.res.t = "response"
  /\ handled.res # Response("403")
  /\ handled.data \in MalformedBodies

\* C10: on a response of a status other than 403 whose body is not valid
\* JSON, the handler throws and never calls the callback.
C10_ParseErrorThrown ==
  IsMalformedReply
    => /\ handled.threw # << >>
       /\ handled.cbCalls = << >>

C10_Witness ==
  /\ IsMalformedReply
  /\ IsFunction(handled.cb)
  /\ handled.res = Response("200")
  /\ handled.data = Str(<<"<html>">>)
  /\ handled.threw # << >>

====
